---- MODULE Spec2Model ----
(***************************************************************************)
(* Odoo RESTful API (new_api_module_17): token manager, HTTP controllers,  *)
(* error mapper and generic CRUD orchestration.                            *)
(*                                                                         *)
(* Time is counted in days.  Python values are modelled as tagged records  *)
(* where several types can meet in one place (exceptions vs. strings).     *)
(***************************************************************************)
EXTENDS Integers, Sequences, FiniteSets, TLC

VARIABLES
    now,        \* fields.Datetime.now(), in days
    tokens,     \* table odoo.restful.user.tokens: set of rows
    tokenSeq,   \* id sequence of the token table
    call,       \* the last token-manager method call and what it returned
    dev_mode,   \* tools.config['dev_mode']
    password,   \* res.users.password, per user
    records,    \* table of the entity kind served by the CRUD routes: id -> row
    recSeq,     \* id sequence of that table
    req,        \* the last HTTP request (route, model_name, Authorization header)
    run,        \* what its handler did: locals, calls made, return value
    resp        \* the HTTP response it got

tokenVars == <<now, tokens, tokenSeq, call>>
httpVars  == <<req, run, resp>>
storeVars == <<records, recSeq>>
restVars  == <<dev_mode, password, records, recSeq, req, run, resp>>
vars == <<now, tokens, tokenSeq, call, dev_mode, password, records, recSeq, req, run, resp>>

-----------------------------------------------------------------------------
(* Bounds of the model *)

MaxUsers  == 2      \* res.users rows 1..MaxUsers
MaxTokens == 2      \* token rows ever created
MaxTime   == 20     \* the clock stops here
ClockStep == 5      \* days the clock advances per tick

(* Program constants *)

ValidityDays == 10  \* timedelta(days=10)

Users  == 1..MaxUsers
NoUser == 0         \* the falsy result of _token_verify / an empty res.users

Times == {t \in 0..MaxTime : t % ClockStep = 0}

\* res.users.login
Login(u) == <<"login", u>>

-----------------------------------------------------------------------------
(* models/access_tokens.py *)

\* jwt.encode(payload, 'ODOO_JWT_KEY', 'HS256'): with a fixed key the credential is
\* an injective function of the payload, so it is modelled by the payload itself.
jwt_encode(payload) == <<"jwt", payload.sub, payload.lgn, payload.iat, payload.exp>>

\* A credential string that no issue() ever produced.
ForgedToken == <<"forged">>

\* is_expired = fields.Datetime.now() > token.expires
_compute_expires(tok) == now > tok.expires

\* Column declarations: token, user_id and expires are stored columns; is_expired is
\* declared with compute= only (no store=True, no search=).
FieldStored(f) == f \in {"id", "token", "user_id", "expires"}

\* Value of a field on a row, the computed one included.
FieldValue(tok, f) == IF f = "is_expired" THEN _compute_expires(tok) ELSE tok[f]

\* One domain leaf (field, '=', value) evaluated by the ORM search.  A leaf on a
\* field that is neither stored nor has a search method cannot be translated to
\* SQL: the ORM logs "Non-stored field ... cannot be searched" and replaces the
\* leaf by the always-true leaf.
LeafMatches(tok, leaf) ==
    IF FieldStored(leaf[1]) THEN FieldValue(tok, leaf[1]) = leaf[3] ELSE TRUE

\* self.env[...].search(domain, limit=1): the matching row of lowest id (default
\* order), or the empty recordset {}.
SearchLimit1(domain) ==
    LET hits == {t \in tokens : \A i \in 1..Len(domain) : LeafMatches(t, domain[i])}
    IN  {t \in hits : \A o \in hits : t.id <= o.id}

\* _token_verify(token): the owner of the row found, else False.
_token_verify(token) ==
    LET domain    == << <<"token", "=", token>>, <<"is_expired", "=", FALSE>> >>
        token_rec == SearchLimit1(domain)
    IN  IF token_rec # {} THEN (CHOOSE t \in token_rec : TRUE).user_id ELSE NoUser

\* Mutant: the validity window is forgotten (expire = now).
create_token_no_window(user) ==
    LET payload == [exp |-> now, iat |-> now, sub |-> user, lgn |-> Login(user)]
    IN  [id |-> tokenSeq, user_id |-> user, expires |-> now, token |-> jwt_encode(payload)]

\* The row _create_new_jwt_token(user) inserts; its token column is the credential
\* returned to the caller.
_create_new_jwt_token(user) ==
    LET expire  == now + ValidityDays
        payload == [exp |-> expire, iat |-> now, sub |-> user, lgn |-> Login(user)]
        token   == jwt_encode(payload)
    IN  [id |-> tokenSeq, user_id |-> user, expires |-> expire, token |-> token]

\* Mutant: the is_expired test is dropped, every row of self is unlinked.
delete_token_unconditional(self) == self

\* _delete_expired_token(self): the rows of self it unlinks.
_delete_expired_token(self) == {tok \in self : _compute_expires(tok)}

\* The recordset the daily ir.autovacuum cron passes as self: it calls every
\* @api.autovacuum method on the model itself, env[model_name], which is the empty
\* recordset of that model.
AutovacuumSelf == {}

\* Credentials a caller can present: any credential issue() can produce, or a forged one.
Credentials ==
    {jwt_encode([exp |-> t + ValidityDays, iat |-> t, sub |-> u, lgn |-> Login(u)]) :
        u \in Users, t \in Times} \cup {ForgedToken}

-----------------------------------------------------------------------------
(* Token-manager operations *)

\* issue(principal): UsersAccessToken._create_new_jwt_token(user)
Issue(user) ==
    /\ tokenSeq <= MaxTokens
    /\ LET row == _create_new_jwt_token(user)
       IN  /\ tokens' = tokens \cup {row}
           /\ call' = [op |-> "issue", arg |-> user, result |-> row.token]
    /\ tokenSeq' = tokenSeq + 1
    /\ UNCHANGED <<now, restVars>>

\* verify(credential): UsersAccessToken._token_verify(token)
Verify(cred) ==
    /\ call' = [op |-> "verify", arg |-> cred, result |-> _token_verify(cred)]
    /\ UNCHANGED <<now, tokens, tokenSeq, restVars>>

\* reap(): the periodic autovacuum run of _delete_expired_token
Autovacuum ==
    /\ tokens' = tokens \ _delete_expired_token(AutovacuumSelf)
    /\ call' = [op |-> "autovacuum", arg |-> AutovacuumSelf,
                result |-> _delete_expired_token(AutovacuumSelf)]
    /\ UNCHANGED <<now, tokenSeq, restVars>>

\* _delete_expired_token called on a recordset of token rows by server-side code
DeleteExpiredOn(self) ==
    /\ self # {}
    /\ tokens' = tokens \ _delete_expired_token(self)
    /\ call' = [op |-> "reap", arg |-> self, result |-> _delete_expired_token(self)]
    /\ UNCHANGED <<now, tokenSeq, restVars>>

\* The wall clock advances.
Tick ==
    /\ now + ClockStep <= MaxTime
    /\ now' = now + ClockStep
    /\ call' = [op |-> "tick", arg |-> ClockStep, result |-> now + ClockStep]
    /\ UNCHANGED <<tokens, tokenSeq, restVars>>

NoCall == [op |-> "none", arg |-> 0, result |-> 0]

TokenInit ==
    /\ now = 0
    /\ tokens = {}
    /\ tokenSeq = 1
    /\ call = NoCall

TokenNext ==
    \/ \E u \in Users : Issue(u)
    \/ \E c \in Credentials : Verify(c)
    \/ Autovacuum
    \/ \E s \in SUBSET tokens : DeleteExpiredOn(s)
    \/ Tick

-----------------------------------------------------------------------------
(* Python values that meet values of other types in one slot are tagged *)

PyNone     == [t |-> "None"]
PyFalse    == [t |-> "bool", v |-> FALSE]
PyInt(n)   == [t |-> "int", v |-> n]
PyStr(x)   == [t |-> "str", v |-> x]
PyDict(kv) == [t |-> "dict", v |-> kv]     \* kv: sequence of <<key, value>>, in key order
PyList(xs) == [t |-> "list", v |-> xs]
PyDigits(n) == [t |-> "digits", v |-> n]  \* the string str(n) of a number n

\* Python truthiness of a tagged value
Truthy(x) ==
    CASE x.t = "None" -> FALSE
      [] x.t = "bool" -> x.v
      [] x.t = "int"  -> x.v # 0
      [] x.t = "str"  -> x.v # ""
      [] x.t = "digits" -> TRUE
      [] x.t = "dict" -> x.v # <<>>
      [] x.t = "list" -> x.v # <<>>
      [] x.t = "recordset" -> x.v # <<>>

-----------------------------------------------------------------------------
(* Exceptions: controllers/utils.py imports *)

\* Direct base class of every exception class that can reach the mapper
\* (odoo.exceptions, psycopg2, builtins); "str" is the class of a plain string.
BaseOf ==
    [ Exception        |-> "object",
      str              |-> "object",
      UserError        |-> "Exception",
      AccessDenied     |-> "Exception",
      RedirectWarning  |-> "Exception",
      ValidationError  |-> "UserError",
      AccessError      |-> "UserError",
      MissingError     |-> "UserError",
      IntegrityError   |-> "Exception",
      UniqueViolation  |-> "IntegrityError",
      ValueError       |-> "Exception",
      KeyError         |-> "Exception",
      TypeError        |-> "Exception" ]

Classes == DOMAIN BaseOf

\* The classes on the inheritance chain of cls, cls included
RECURSIVE Mro(_)
Mro(cls) == IF cls \in Classes THEN {cls} \cup Mro(BaseOf[cls]) ELSE {cls}

isinstance(e, cls) == cls \in Mro(e.cls)

\* e.diag of a psycopg2 error ("" stands for None); other values have no diag
NoDiag == [absent |-> TRUE]
Diags ==
    [message_detail : {"", "detail"}, message_primary : {"", "primary"},
     constraint_name : {"", "uniq"}]

hasattr_diag(e) == e.diag # NoDiag

\* An exception value
Exc(cls, msg) == [cls |-> cls, msg |-> msg, diag |-> NoDiag]

\* str(e): the message of an exception, as a plain string value
str(e) == [cls |-> "str", msg |-> e.msg, diag |-> NoDiag]

-----------------------------------------------------------------------------
(* controllers/utils.py *)

\* Response(json.dumps({...}), status=status)
Response(payload, status) == [status |-> status, json |-> payload]

valid_response(body, message, code, status) ==
    Response([code |-> code, message |-> message, body |-> body], status)

invalid_response(body, message, code, status) ==
    Response([code |-> code, message |-> message, body |-> body], status)

error_response(body, message, code, status) ==
    Response([code |-> code, message |-> message, body |-> body], status)

\* Default arguments of the three builders
DefaultBody   == PyDict(<<>>)
DefaultStatus == 400
OkStatus      == 200

_parse_psql_integrity_error(e) ==
    IF hasattr_diag(e)
    THEN IF e.diag.message_detail # "" THEN e.diag.message_detail
         ELSE IF e.diag.message_primary # "" THEN e.diag.message_primary
         ELSE IF e.diag.constraint_name # ""
              THEN "Constraint Error: " \o e.diag.constraint_name
         ELSE "Database Constraint Error"
    ELSE "Database Constraint Error"

\* traceback.format_exc() for the error being handled
format_exc(e) == <<"traceback", e.cls, e.msg>>

_unexpected_error(e) ==
    IF dev_mode
    THEN PyDict(<< <<"error", e.msg>>, <<"traceback", format_exc(e)>> >>)
    ELSE PyDict(<< <<"error", e.msg>> >>)

\* Mutant: the generic UserError test comes first in the chain.
handel_errors_usererror_first(e) ==
    IF isinstance(e, "IntegrityError")
    THEN error_response(DefaultBody, _parse_psql_integrity_error(e), 400, DefaultStatus)
    ELSE IF isinstance(e, "UserError")
    THEN error_response(DefaultBody, e.msg, 400, DefaultStatus)
    ELSE IF isinstance(e, "ValidationError")
    THEN error_response(DefaultBody, e.msg, 402, DefaultStatus)
    ELSE IF isinstance(e, "AccessDenied")
    THEN error_response(DefaultBody, "Access Denied", 401, DefaultStatus)
    ELSE IF isinstance(e, "AccessError")
    THEN error_response(DefaultBody, "Access Error", 403, DefaultStatus)
    ELSE IF isinstance(e, "MissingError")
    THEN error_response(DefaultBody, e.msg, 404, DefaultStatus)
    ELSE error_response(_unexpected_error(e), e.msg, 500, DefaultStatus)

handel_odoo_api_errors(e) ==
    IF isinstance(e, "IntegrityError")
    THEN error_response(DefaultBody, _parse_psql_integrity_error(e), 400, DefaultStatus)
    ELSE IF isinstance(e, "ValidationError")
    THEN error_response(DefaultBody, e.msg, 402, DefaultStatus)
    ELSE IF isinstance(e, "AccessDenied")
    THEN error_response(DefaultBody, "Access Denied", 401, DefaultStatus)
    ELSE IF isinstance(e, "AccessError")
    THEN error_response(DefaultBody, "Access Error", 403, DefaultStatus)
    ELSE IF isinstance(e, "MissingError")
    THEN error_response(DefaultBody, e.msg, 404, DefaultStatus)
    ELSE IF isinstance(e, "UserError")
    THEN error_response(DefaultBody, e.msg, 400, DefaultStatus)
    ELSE error_response(_unexpected_error(e), e.msg, 500, DefaultStatus)

\* Every value the mapper can be handed: an exception of any class, with or without
\* a psycopg2 diag, or a plain string.
Messages == {"m1", "m2"}
ErrorValues ==
    {Exc(c, m) : c \in Classes \ {"str"}, m \in Messages}
    \cup {[cls |-> c, msg |-> m, diag |-> d] :
            c \in {"IntegrityError", "UniqueViolation"}, m \in Messages, d \in Diags}
    \cup {str(Exc("Exception", m)) : m \in Messages}

-----------------------------------------------------------------------------
(* Ordered dicts (Python dict): sequences of <<key, value>> in insertion order *)

DictKeys(d) == {d[i][1] : i \in 1..Len(d)}
DictHas(d, k) == k \in DictKeys(d)
DictGet(d, k) == (CHOOSE i \in 1..Len(d) : d[i][1] = k) \* index of key k
DictVal(d, k) == d[DictGet(d, k)][2]

\* d[k] = v: an existing key keeps its position
DictSet(d, k, v) ==
    IF DictHas(d, k)
    THEN [i \in 1..Len(d) |-> IF d[i][1] = k THEN <<k, v>> ELSE d[i]]
    ELSE Append(d, <<k, v>>)

\* d without key k (the rest of d.pop(k))
DictDel(d, k) == SelectSeq(d, LAMBDA p : p[1] # k)

\* d1.update(d2)
RECURSIVE DictUpdate(_, _)
DictUpdate(d1, d2) ==
    IF d2 = <<>> THEN d1
    ELSE DictUpdate(DictSet(d1, Head(d2)[1], Head(d2)[2]), Tail(d2))

-----------------------------------------------------------------------------
(* models/base_models.py: the entity kind served by the routes *)

MaxRec == 1         \* rows ever created in the entity table

\* self._fields of the kind, in registry order: a partner-like kind that follows
\* the message thread (mail.thread), with one field of each sort the code tells apart
Fields ==
    << [name |-> "id",             type |-> "integer",   comodel |-> ""],
       [name |-> "display_name",   type |-> "char",      comodel |-> ""],
       [name |-> "name",           type |-> "char",      comodel |-> ""],
       [name |-> "country_id",     type |-> "many2one",  comodel |-> "res.country"],
       [name |-> "create_date",    type |-> "datetime",  comodel |-> ""],
       [name |-> "message_ids",    type |-> "one2many",  comodel |-> "mail.message"],
       [name |-> "message_has_error_counter",
                                   type |-> "integer",   comodel |-> ""],
       [name |-> "child_ids",      type |-> "one2many",  comodel |-> "res.partner"],
       [name |-> "attachment_ids", type |-> "many2many", comodel |-> "ir.attachment"],
       [name |-> "category_id",    type |-> "many2many", comodel |-> "res.partner.category"],
       [name |-> "parent_id",      type |-> "many2one",  comodel |-> "res.partner"],
       [name |-> "comment",        type |-> "html",      comodel |-> ""],
       [name |-> "active",         type |-> "boolean",   comodel |-> ""],
       [name |-> "email",          type |-> "char",      comodel |-> ""] >>

FieldNames == {Fields[i].name : i \in 1..Len(Fields)}
FieldOf(n) == Fields[CHOOSE i \in 1..Len(Fields) : Fields[i].name = n]

\* Text values are sequences of characters; <<>> is the unset value (False)
Names == {<<"a">>, <<"a", "b", " ">>}

\* Rows of the related kind res.country: id -> display_name
Countries == [i \in {1} |-> <<"c">>]

Models == {"res.partner"}

\* record.exists() for a row id of the entity table / of the related kind
Exists(id) == id \in DOMAIN records
ComodelExists(id) == id \in DOMAIN Countries

\* self.display_name
display_name(id) == records[id].name

\* self[name]
ReadField(rows, id, n) ==
    CASE n = "id"           -> id
      [] n = "display_name" -> rows[id].name
      [] OTHER              -> rows[id][n]

\* Outcome of a call that may raise
Ok(v)    == [ok |-> TRUE, v |-> v]
Raise(e) == [ok |-> FALSE, e |-> e]

\* 'attachment' in s, for the field names and the keys of list items that occur
ContainsAttachment(s) == s \in {"attachment", "attachment_ids", "doc_attachment_ids"}

\* key == 'attachment_ids' or key.endswith('_attachment_ids')
IsAttachmentIds(s) == s \in {"attachment_ids", "doc_attachment_ids"}

\* isinstance(x, dict) / isinstance(x, list) / isinstance(x, str) / isinstance(x, int)
\* (a bool is an int); a command tuple is none of them
IsA(x, types) == "t" \in DOMAIN x /\ x.t \in types

\* d.get(k, default) on an ordered dict
DictGetOr(d, k, default) == IF DictHas(d, k) THEN DictVal(d, k) ELSE default

\* The ORM commands (4, id) and (0, 0, vals)
Link(id) == [cmd |-> 4, id |-> id]
CreateNested(vals) == [cmd |-> 0, vals |-> vals]

\* (0, 0, {'name': ..., 'datas': ..., 'type': 'binary'})
FileCommand(name, datas) ==
    CreateNested(PyDict(<< <<"name", name>>, <<"datas", datas>>, <<"type", PyStr(<<"binary">>)>> >>))

DefaultFileName == PyStr(<<"f", "i", "l", "e">>)

\* for sub in att['attachment_ids']: the commands of a nested group
RECURSIVE SubCommands(_)
SubCommands(subs) ==
    IF subs = <<>> THEN <<>>
    ELSE LET sub == Head(subs)
         IN  (IF IsA(sub, {"dict"}) /\ Truthy(DictGetOr(sub.v, "attachment", PyNone))
              THEN <<FileCommand(DictGetOr(sub.v, "name", DefaultFileName),
                                 DictVal(sub.v, "attachment"))>>
              ELSE <<>>) \o SubCommands(Tail(subs))

\* for att in attachments: flat attachments and nested groups
RECURSIVE FlatCommands(_)
FlatCommands(atts) ==
    IF atts = <<>> THEN <<>>
    ELSE LET att == Head(atts)
         IN  (IF IsA(att, {"dict"}) /\ DictHas(att.v, "attachment")
              THEN <<FileCommand(DictGetOr(att.v, "name", DefaultFileName),
                                 DictVal(att.v, "attachment"))>>
              ELSE IF IsA(att, {"dict"}) /\ DictHas(att.v, "attachment_ids")
              THEN SubCommands(DictVal(att.v, "attachment_ids").v)
              ELSE <<>>) \o FlatCommands(Tail(atts))

\* many2many: `for key in list(item.keys())` over the keys of the item as they were
\* before the loop; item is the dict as popped so far.  The result is the
\* attach_commands and the item left.
RECURSIVE m2m_flatten(_, _, _)
m2m_flatten(keys, item, attach_commands) ==
    IF keys = <<>> THEN [attach_commands |-> attach_commands, item |-> item]
    ELSE LET key == Head(keys) IN
         IF ~ContainsAttachment(key) THEN m2m_flatten(Tail(keys), item, attach_commands)
         ELSE LET attachments == DictVal(item, key)
                  popped == DictDel(item, key)
              IN  m2m_flatten(Tail(keys), popped,
                      attach_commands \o
                      (IF IsA(attachments, {"list"}) THEN FlatCommands(attachments.v)
                       ELSE IF IsA(attachments, {"str"})
                       THEN <<FileCommand(DictGetOr(popped, "name", DefaultFileName),
                                          attachments)>>
                       ELSE <<>>))

\* set(attach_commands): a tuple that holds a dict is not hashable
Unhashable == Exc("TypeError", "unhashable type: 'dict'")

\* Mutant: a link command that is already in the list is not added again.
RECURSIVE m2m_items_dedup(_, _, _, _)
m2m_items_dedup(field, items, commands, seen) ==
    IF items = <<>> THEN [out |-> Ok(commands), items |-> seen]
    ELSE LET item == Head(items)
             own  == IF IsA(item, {"int", "bool"}) THEN <<Link(item)>>
                     ELSE IF ~IsA(item, {"dict"}) THEN <<>>
                     ELSE IF DictHas(item.v, "id") /\ Len(item.v) = 1
                     THEN <<Link(DictVal(item.v, "id"))>>
                     ELSE <<CreateNested(item)>>
             new  == SelectSeq(own, LAMBDA c : \A i \in 1..Len(commands) : commands[i] # c)
         IN  m2m_items_dedup(field, Tail(items), commands \o new, Append(seen, item))

\* many2many: `for item in value`; the result is the commands (or the exception
\* raised) and the items as the loop leaves them
RECURSIVE m2m_items(_, _, _, _)
m2m_items(field, items, commands, seen) ==
    IF items = <<>> THEN [out |-> Ok(commands), items |-> seen]
    ELSE LET item == Head(items) IN
         IF IsA(item, {"dict"})
         THEN LET flat == IF ContainsAttachment(field.name)
                          THEN m2m_flatten([i \in 1..Len(item.v) |-> item.v[i][1]], item.v, <<>>)
                          ELSE [attach_commands |-> <<>>, item |-> item.v]
                  left == PyDict(flat.item)
                  own  == IF DictHas(flat.item, "id") /\ Len(flat.item) = 1
                          THEN Link(DictVal(flat.item, "id"))
                          ELSE CreateNested(left)
              IN  IF Len(flat.attach_commands) = 1
                  THEN m2m_items(field, Tail(items),
                                 commands \o <<PyList(flat.attach_commands), own>>,
                                 Append(seen, left))
                  ELSE IF Len(flat.attach_commands) > 1
                  THEN [out |-> Raise(Unhashable), items |-> Append(seen, left) \o Tail(items)]
                  ELSE m2m_items(field, Tail(items), Append(commands, own), Append(seen, left))
         ELSE IF IsA(item, {"int", "bool"})
         THEN m2m_items(field, Tail(items), Append(commands, Link(item)), Append(seen, item))
         ELSE m2m_items(field, Tail(items), commands, Append(seen, item))

\* one2many: `for key in list(item.keys())`; the result is the item left
RECURSIVE o2m_flatten(_, _)
o2m_flatten(keys, item) ==
    IF keys = <<>> THEN item
    ELSE LET key == Head(keys) IN
         IF ~IsAttachmentIds(key) THEN o2m_flatten(Tail(keys), item)
         ELSE LET attachments == DictVal(item, key)
                  popped == DictDel(item, key)
                  attach_commands == IF IsA(attachments, {"list"})
                                     THEN FlatCommands(attachments.v) ELSE <<>>
              IN  o2m_flatten(Tail(keys),
                      IF attach_commands # <<>>
                      THEN DictSet(popped, "attachment_ids", PyList(attach_commands))
                      ELSE popped)

\* one2many: `for item in value`
RECURSIVE o2m_items(_, _, _)
o2m_items(items, commands, seen) ==
    IF items = <<>> THEN [out |-> Ok(commands), items |-> seen]
    ELSE LET item == Head(items) IN
         IF IsA(item, {"dict"})
         THEN LET left == PyDict(o2m_flatten([i \in 1..Len(item.v) |-> item.v[i][1]], item.v))
              IN  o2m_items(Tail(items), Append(commands, CreateNested(left)),
                            Append(seen, left))
         ELSE IF IsA(item, {"int", "bool"})
         THEN o2m_items(Tail(items), Append(commands, Link(item)), Append(seen, item))
         ELSE o2m_items(Tail(items), commands, Append(seen, item))

\* _from_dict(data): data is a function from keys to values.  Only the keys that
\* are registry fields are read, in registry order.  The result is the vals dict (or
\* the exception raised) and the data object as the call leaves it: the items of
\* a to-many list are the caller's own dict objects.
RECURSIVE from_dict_loop(_, _, _)
from_dict_loop(data, i, vals) ==
    IF i > Len(Fields) THEN [out |-> Ok(vals), data |-> data]
    ELSE LET field == Fields[i]
             fname == field.name
         IN  IF fname \notin DOMAIN data THEN from_dict_loop(data, i + 1, vals)
             ELSE IF field.type = "many2one"
             THEN IF data[fname] # 0
                  THEN IF ~ComodelExists(data[fname])
                       THEN [out |-> Raise(Exc("UserError", "Invalid ID for field")),
                             data |-> data]
                       ELSE from_dict_loop(data, i + 1, DictSet(vals, fname, data[fname]))
                  ELSE from_dict_loop(data, i + 1, vals)
             ELSE IF field.type \in {"many2many", "one2many"}
             THEN IF ~IsA(data[fname], {"list"}) THEN from_dict_loop(data, i + 1, vals)
                  ELSE LET r == IF field.type = "many2many"
                                THEN m2m_items(field, data[fname].v, <<>>, <<>>)
                                ELSE o2m_items(data[fname].v, <<>>, <<>>)
                           after == [data EXCEPT ![fname] = PyList(r.items)]
                       IN  IF ~r.out.ok THEN [out |-> r.out, data |-> after]
                           ELSE from_dict_loop(after, i + 1,
                                    IF r.out.v # <<>> THEN DictSet(vals, fname, r.out.v)
                                    ELSE vals)
             ELSE from_dict_loop(data, i + 1, DictSet(vals, fname, data[fname]))

_from_dict(data) == from_dict_loop(data, 1, <<>>).out

\* _fields_not_display(): the string literals of the set.  "display_name" and
\* "message_has_error_counter" are adjacent literals with no comma between them,
\* which Python joins into one string.
_fields_not_display ==
    { "message_ids", "my_activity_date_deadline", "message_follower_ids",
      "message_partner_ids", "message_attachment_count", "message_unread",
      "message_unread_counter", "message_needaction", "message_needaction_counter",
      "message_has_error", "display_namemessage_has_error_counter",
      "message_has_sms_error", "message_is_follower", "message_main_attachment_id",
      "activity_ids", "activity_state", "activity_user_id", "activity_type_id",
      "activity_date_deadline", "activity_summary", "activity_exception_decoration",
      "activity_exception_icon", "website_message_ids", "message_notify",
      "message_subtype_id", "duration_tracking", "activity_calendar_event_id",
      "activity_type_icon", "Record_count", "create_date", "create_uid", "write_date",
      "write_uid" }

\* val.strip().replace("\u200F", ""): " " is whitespace, "RLM" the character U+200F
RECURSIVE lstrip(_)
lstrip(text) == IF text # <<>> /\ Head(text) = " " THEN lstrip(Tail(text)) ELSE text

RECURSIVE rstrip(_)
rstrip(text) ==
    IF text # <<>> /\ text[Len(text)] = " " THEN rstrip(SubSeq(text, 1, Len(text) - 1))
    ELSE text

strip(text) == SelectSeq(rstrip(lstrip(text)), LAMBDA c : c # "RLM")

\* html_to_text: re.sub(r'<[^>]+>', '', html_code)
RECURSIVE html_to_text(_)
html_to_text(text) ==
    IF text = <<>> THEN <<>>
    ELSE LET closes == {j \in 3..Len(text) :
                            text[j] = ">" /\ \A k \in 2..(j - 1) : text[k] # ">"}
         IN  IF Head(text) = "<" /\ closes # {}
             THEN html_to_text(SubSeq(text, (CHOOSE j \in closes : TRUE) + 1, Len(text)))
             ELSE <<Head(text)>> \o html_to_text(Tail(text))

\* r.display_name of row id of a related kind
RelatedName(rows, comodel, id) ==
    IF comodel = "res.partner" THEN (IF id \in DOMAIN rows THEN rows[id].name ELSE <<>>)
    ELSE IF comodel = "res.country" THEN Countries[id]
    ELSE <<"r">>

\* {"id": r.id, "name": r.display_name}
Stub(id, name) == PyDict(<< <<"id", PyInt(id)>>, <<"name", PyStr(name)>> >>)

\* fmt_value(val, field) of _to_dict, recurse_many2one = True.  A column holds a
\* value of its field's type: text (<<>> is False), a number, a boolean, a
\* timestamp (0 is False), the id of a many2one (0: the empty recordset), the ids
\* of a to-many.  `val in [False, None, '']` holds for False, '' and the number 0,
\* and for no recordset.
fmt_value(rows, val, field) ==
    LET type  == field.type
        empty == CASE type \in {"char", "text", "selection", "html"} -> val = <<>>
                   [] type = "boolean" -> val = FALSE
                   [] type \in {"integer", "float", "date", "datetime"} -> val = 0
                   [] OTHER -> FALSE
    IN  IF empty
        THEN CASE type \in {"char", "text", "selection"} -> PyStr(<<>>)
               [] type = "many2one" -> PyDict(<<>>)
               [] type \in {"many2many", "one2many"} -> PyList(<<>>)
               [] OTHER -> PyFalse
        ELSE CASE type \in {"char", "text", "selection"} -> PyStr(strip(val))
               [] type = "html" -> PyStr(html_to_text(strip(val)))
               [] type \in {"date", "datetime"} -> PyStr(<<"strftime", ToString(val)>>)
               [] type = "many2one" ->
                    IF val = 0 THEN PyDict(<<>>)
                    ELSE Stub(val, RelatedName(rows, field.comodel, val))
               [] type \in {"many2many", "one2many"} ->
                    PyList([i \in 1..Len(val) |->
                              Stub(val[i], RelatedName(rows, field.comodel, val[i]))])
               [] type = "boolean" -> [t |-> "bool", v |-> val]
               [] OTHER -> PyInt(val)

\* The entry of an ir.attachment row in a to-many field
AttachmentStub(id) ==
    PyDict(<< <<"id", PyInt(id)>>, <<"name", PyStr(<<"r">>)>>,
              <<"mimetype", PyStr(<<"m">>)>>, <<"url", PyStr(<<"url", ToString(id)>>)>> >>)

\* The loop over target_fields building res
RECURSIVE to_dict_fill(_, _, _, _)
to_dict_fill(rows, id, target, res) ==
    IF target = <<>> THEN res
    ELSE LET n == Head(target)
         IN  IF n \notin FieldNames THEN to_dict_fill(rows, id, Tail(target), res)
             ELSE IF n \in _fields_not_display   \* skip_chatter = True
             THEN to_dict_fill(rows, id, Tail(target), res)
             ELSE LET field  == FieldOf(n)
                      value  == ReadField(rows, id, n)
                      toMany == field.type \in {"one2many", "many2many"}
                      shown  == IF field.comodel = "ir.attachment" /\ toMany
                                THEN PyList([i \in 1..Len(value) |-> AttachmentStub(value[i])])
                                ELSE fmt_value(rows, value, field)
                      res1   == DictSet(res, n, shown)
                  IN  to_dict_fill(rows, id, Tail(target),
                          IF toMany THEN DictSet(res1, n \o "_count", PyInt(Len(value)))
                          ELSE res1)

FIELD_ORDER ==
    <<"char", "text", "boolean", "float", "integer", "date", "datetime",
      "many2one", "many2many", "one2many">>

\* Moves the keys 'id' and 'name' of res to the front
to_dict_first(res) ==
    LET withId == IF DictHas(res, "id") THEN << <<"id", DictVal(res, "id")>> >> ELSE <<>>
    IN  IF DictHas(res, "name") THEN Append(withId, <<"name", DictVal(res, "name")>>)
        ELSE withId

\* The keys of res whose field has type ftype, in res order, a to-many one followed
\* by its count key
RECURSIVE OfType(_, _, _)
OfType(res, keys, ftype) ==
    IF keys = <<>> THEN <<>>
    ELSE LET key == Head(keys)
             cnt == key \o "_count"
         IN  (IF key \in FieldNames /\ FieldOf(key).type = ftype
              THEN << <<key, DictVal(res, key)>> >> \o
                   (IF ftype \in {"one2many", "many2many"} /\ DictHas(res, cnt)
                    THEN << <<cnt, DictVal(res, cnt)>> >> ELSE <<>>)
              ELSE <<>>) \o OfType(res, Tail(keys), ftype)

RECURSIVE to_dict_by_type(_, _)
to_dict_by_type(res, k) ==
    IF k > Len(FIELD_ORDER) THEN <<>>
    ELSE OfType(res, [i \in 1..Len(res) |-> res[i][1]], FIELD_ORDER[k])
         \o to_dict_by_type(res, k + 1)

\* record._to_dict(list_of_fields) for the single row id of table rows, when the
\* row is not in memo; list_of_fields = <<>> stands for None (every registry field)
_to_dict(rows, id, list_of_fields) ==
    LET target  == IF list_of_fields # <<>> THEN list_of_fields
                   ELSE [i \in 1..Len(Fields) |-> Fields[i].name]
        res     == to_dict_fill(rows, id, target, <<>>)
        first   == to_dict_first(res)
        rest    == DictDel(DictDel(res, "id"), "name")
        typed   == to_dict_by_type(rest, 1)
        ordered == DictSet(first \o typed, "name", PyStr(rows[id].name))
        left    == SelectSeq(rest, LAMBDA p : ~DictHas(typed, p[1]))
    IN  DictUpdate(ordered, left)

\* record_ref = (self._name, self.id)
record_ref(id) == <<"res.partner", id>>

\* Mutant: the memo is not consulted, a row already in it is expanded again.
to_dict_memo_always_expand(rows, id, list_of_fields, memo) ==
    [v |-> _to_dict(rows, id, list_of_fields), memo |-> memo \cup {record_ref(id)}]

\* rec._to_dict(list_of_fields, memo=memo) for the single row id: the stub when the
\* row is in memo, else the row is added to memo and expanded.  Returns the dict and
\* the memo as the call leaves it.
to_dict_memo(rows, id, list_of_fields, memo) ==
    IF record_ref(id) \in memo THEN [v |-> Stub(id, rows[id].name).v, memo |-> memo]
    ELSE [v |-> _to_dict(rows, id, list_of_fields), memo |-> memo \cup {record_ref(id)}]

\* What self._to_dict(list_of_fields) returns for the handle ids once every record
\* has its dict in out: a list for a plural handle, {} for the empty one
to_dict_return(ids, out) ==
    IF Len(ids) > 1 THEN PyList([i \in 1..Len(out) |-> PyDict(out[i])])
    ELSE IF ids = <<>> THEN PyDict(<<>>)
    ELSE PyDict(out[1])

\* A row whose every column is unset
UnsetRow ==
    [name |-> <<>>, email |-> <<>>, comment |-> <<>>, active |-> FALSE,
     country_id |-> 0, parent_id |-> 0, create_date |-> 0,
     message_has_error_counter |-> 0, message_ids |-> <<>>, child_ids |-> <<>>,
     attachment_ids |-> <<>>, category_id |-> <<>>]

\* The columns a vals entry sets directly (a to-many entry is a command list)
ValueColumns ==
    {c \in DOMAIN UnsetRow : FieldOf(c).type \notin {"one2many", "many2many"}}

\* Row written by the store's create(vals): unset columns take the empty value
NewRow(vals) ==
    [c \in DOMAIN UnsetRow |->
        IF c \in ValueColumns /\ DictHas(vals, c) THEN DictVal(vals, c) ELSE UnsetRow[c]]

\* Row after the store's write(vals)
WrittenRow(row, vals) ==
    [c \in DOMAIN UnsetRow |->
        IF c \in ValueColumns /\ DictHas(vals, c) THEN DictVal(vals, c) ELSE row[c]]

\* Errors the store can raise from create / write / unlink (constraint, validation,
\* access, and a concurrently removed row); NoExc: the operation succeeds
NoExc == [cls |-> "none", msg |-> "", diag |-> NoDiag]
StoreErrors ==
    { [cls |-> "UniqueViolation", msg |-> "duplicate key",
       diag |-> [message_detail |-> "detail", message_primary |-> "primary",
                 constraint_name |-> "uniq"]],
      Exc("ValidationError", "constraint failed"),
      Exc("AccessError", "not allowed"),
      Exc("MissingError", "record is gone") }

\* int(x) on a payload value: an int is itself, a string of digits its number
int(x) == x.v

\* Result of an orchestrator method: the value returned or the exception raised,
\* and the table it leaves (an exception rolls nothing back here: nothing was
\* written before it)
Done(out, rows, seq) == [out |-> out, rows |-> rows, seq |-> seq]

\* _create_new_record(data, list_of_fields); err: what the store's create raises
_create_new_record(data, list_of_fields, err) ==
    LET formated_data == _from_dict(data)
    IN  IF ~formated_data.ok THEN Done(formated_data, records, recSeq)
        ELSE IF err # NoExc THEN Done(Raise(err), records, recSeq)
        ELSE LET rows == [i \in DOMAIN records \cup {recSeq} |->
                            IF i = recSeq THEN NewRow(formated_data.v) ELSE records[i]]
             IN  Done(Ok(PyDict(_to_dict(rows, recSeq, list_of_fields))), rows, recSeq + 1)

\* Mutant: the existence test is dropped and a missing row is written (created).
update_without_exists_check(data, list_of_fields, err) ==
    LET record_id == IF "id" \in DOMAIN data THEN data["id"] ELSE PyNone
        rest      == [k \in DOMAIN data \ {"id"} |-> data[k]]
    IN  IF ~Truthy(record_id) THEN Done(Ok(PyFalse), records, recSeq)
        ELSE LET formated_data == _from_dict(rest)
             IN  IF ~formated_data.ok THEN Done(formated_data, records, recSeq)
                 ELSE LET old  == IF Exists(int(record_id)) THEN records[int(record_id)]
                                  ELSE NewRow(<<>>)
                          rows == [i \in DOMAIN records \cup {int(record_id)} |->
                                     IF i = int(record_id)
                                     THEN WrittenRow(old, formated_data.v)
                                     ELSE records[i]]
                      IN  Done(Ok(PyDict(_to_dict(rows, int(record_id), list_of_fields))),
                               rows, recSeq)

\* _update_existing_record(data, list_of_fields); err: what the store's write raises
_update_existing_record(data, list_of_fields, err) ==
    LET record_id == IF "id" \in DOMAIN data THEN data["id"] ELSE PyNone
        rest      == [k \in DOMAIN data \ {"id"} |-> data[k]]
    IN  IF ~Truthy(record_id) THEN Done(Ok(PyFalse), records, recSeq)
        ELSE IF ~Exists(int(record_id)) THEN Done(Ok(PyFalse), records, recSeq)
        ELSE LET formated_data == _from_dict(rest)
             IN  IF ~formated_data.ok THEN Done(formated_data, records, recSeq)
                 ELSE IF err # NoExc THEN Done(Raise(err), records, recSeq)
                 ELSE LET rows == [records EXCEPT ![int(record_id)] =
                                      WrittenRow(@, formated_data.v)]
                      IN  Done(Ok(PyDict(_to_dict(rows, int(record_id), list_of_fields))),
                               rows, recSeq)

\* _api_delete_one(record_id); err: what the store's unlink raises
_api_delete_one(record_id, err) ==
    IF record_id = 0 THEN Done(Raise(Exc("UserError", "Missing Record_id")), records, recSeq)
    ELSE IF ~Exists(record_id)
    THEN Done(Raise(Exc("UserError", "Record record not found.")), records, recSeq)
    ELSE IF err # NoExc THEN Done(Raise(err), records, recSeq)
    ELSE Done(Ok(PyDict(<< <<"id", record_id>> >>)),
              [i \in DOMAIN records \ {record_id} |-> records[i]], recSeq)

\* A search domain: <<>> (every row) or one leaf <<field, operator, value>>
RECURSIVE Contains(_, _)
Contains(text, kw) ==
    IF Len(kw) > Len(text) THEN FALSE
    ELSE IF SubSeq(text, 1, Len(kw)) = kw THEN TRUE
    ELSE text # <<>> /\ Contains(Tail(text), kw)

DomainMatches(id, domain) ==
    IF domain = <<>> THEN TRUE
    ELSE CASE domain[2] = "="    -> ReadField(records, id, domain[1]) = domain[3]
           [] domain[2] = "like" -> Contains(ReadField(records, id, domain[1]), domain[3])

\* The ids in ascending order (the default order of search)
RECURSIVE Ascending(_)
Ascending(ids) ==
    IF ids = {} THEN <<>>
    ELSE LET m == CHOOSE i \in ids : \A j \in ids : i <= j
         IN  <<m>> \o Ascending(ids \ {m})

Min2(a, b) == IF a < b THEN a ELSE b

\* self.search(domain, limit=limit, offset=offset)
Search(domain, limit, offset) ==
    LET all == Ascending({i \in DOMAIN records : DomainMatches(i, domain)})
    IN  SubSeq(all, offset + 1, Min2(Len(all), offset + limit))

ProjectAll(ids, list_of_fields) ==
    [i \in 1..Len(ids) |-> _to_dict(records, ids[i], list_of_fields)]

_api_search_all(domain, limit, offset, list_of_fields) ==
    Done(Ok(PyList(ProjectAll(Search(domain, limit, offset), list_of_fields))),
         records, recSeq)

_api_search_one(record_id, list_of_fields) ==
    IF ~Exists(record_id)
    THEN Done(Raise(Exc("UserError", "Record not found.")), records, recSeq)
    ELSE Done(Ok(PyDict(_to_dict(records, record_id, list_of_fields))), records, recSeq)

_get_all_filter_conditions(keyword) == <<"name", "like", keyword>>

\* keyword = <<>> stands for None; with a keyword the domain is the single
\* condition of _get_all_filter_conditions (no '|' is needed for one condition)
_api_filter_with_keywords(domain, keyword, list_of_fields) ==
    LET filter_domain == IF keyword # <<>> THEN _get_all_filter_conditions(keyword)
                         ELSE domain
        all == Ascending({i \in DOMAIN records : DomainMatches(i, filter_domain)})
    IN  Done(Ok(PyList(ProjectAll(all, list_of_fields))), records, recSeq)

-----------------------------------------------------------------------------
(* HTTP requests *)

\* request.httprequest.data: absent, not JSON, or a JSON object (a function from
\* keys to values)
NoBody  == [kind |-> "absent"]
BadJson == [kind |-> "invalid"]
Json(d) == [kind |-> "json", data |-> d]

\* An optional key of a JSON object
Absent  == [has |-> FALSE]
Opt(S)  == {Absent} \cup {[has |-> TRUE, v |-> x] : x \in S}
Put(k, o) == IF o.has THEN k :> o.v ELSE <<>>

\* data.get(k)
Get(data, k, default) == IF k \in DOMAIN data THEN data[k] ELSE default

\* The Authorization header: none, one of another scheme, or 'Bearer ' + credential
NoHeader     == [scheme |-> "none"]
Basic(cred)  == [scheme |-> "Basic ", cred |-> cred]
Bearer(cred) == [scheme |-> "Bearer ", cred |-> cred]

\* Headers a client can send: no credential, a malformed prefix, an unknown
\* credential, or the credential of a stored token row
Headers ==
    {NoHeader, Basic(ForgedToken), Bearer(ForgedToken)} \cup {Bearer(t.token) : t \in tokens}

-----------------------------------------------------------------------------
(* controllers/utils.py: get_json_body, check_api_token *)

\* get_json_body(): the pair (data, error); error is None for a JSON body and a
\* Response object otherwise
get_json_body(body) ==
    IF body = NoBody
    THEN [data  |-> <<>>,
          error |-> invalid_response(PyDict(<<>>), "Missing request body", 400, DefaultStatus)]
    ELSE IF body = BadJson
    THEN [data  |-> <<>>,
          error |-> invalid_response(PyDict(<<>>), "Invalid JSON body", 400, DefaultStatus)]
    ELSE [data |-> body.data, error |-> PyNone]

\* `if error: return invalid_response(message=error)` in every controller method:
\* error is a Response object, which is truthy, and json.dumps() of an envelope
\* whose message is a Response object raises TypeError
NotSerializable == Exc("TypeError", "Object of type Response is not JSON serializable")

\* Mutant: the 'Bearer ' prefix is not tested, any header's credential is verified.
check_api_token_any_scheme(header) ==
    IF header.scheme = "none"
    THEN [pass |-> FALSE, called |-> FALSE, user |-> NoUser,
          resp |-> invalid_response(DefaultBody, "Missing or Invalid Authorization Header",
                                    400, DefaultStatus)]
    ELSE LET check_token_user == _token_verify(header.cred)
         IN  [pass |-> check_token_user # NoUser, called |-> TRUE,
              user |-> check_token_user,
              resp |-> invalid_response(DefaultBody, "Invalid Authorization Token",
                                        400, DefaultStatus)]

\* The token check of check_api_token().wrapper, up to the call of func:
\* pass: func is called; called: _token_verify was called; user: what it returned
check_api_token(header) ==
    IF header.scheme # "Bearer "
    THEN [pass |-> FALSE, called |-> FALSE, user |-> NoUser,
          resp |-> invalid_response(DefaultBody, "Missing or Invalid Authorization Header",
                                    400, DefaultStatus)]
    ELSE LET check_token_user == _token_verify(header.cred)
         IN  [pass |-> check_token_user # NoUser, called |-> TRUE,
              user |-> check_token_user,
              resp |-> invalid_response(DefaultBody, "Invalid Authorization Token",
                                        400, DefaultStatus)]

-----------------------------------------------------------------------------
(* controllers/main.py *)

\* The routes of OdooApi that carry the @check_api_token() decorator: every route
\* is declared with @route(..., **route_options(...)) alone, and route_options
\* sets auth='none'.
TokenCheckedRoutes == {}

\* What the host framework answers when an exception leaves the controller method:
\* its own error page, not a response built by this module
Unhandled(e) == [unhandled |-> e]

\* Outcome of a controller method body: out is Ok(Response) or Raise(exception);
\* rows/seq: the entity table it leaves; store: the orchestrator method it called
\* ("none" if it returned before); record_id, ret: that call's id argument and
\* outcome; caught: an exception the method caught itself
Handled(out, rows, seq, store, record_id, ret, caught) ==
    [out |-> out, rows |-> rows, seq |-> seq, store |-> store,
     record_id |-> record_id, ret |-> ret, caught |-> caught]

\* The method returned a Response without calling the orchestrator
Early(response) == Handled(Ok(response), records, recSeq, "none", PyNone, Ok(PyNone), NoExc)

\* The method called orchestrator method m, whose result is d: a raised exception
\* leaves the method, a returned value becomes the body of valid_response
Called(m, record_id, d, message) ==
    Handled(IF d.out.ok THEN Ok(valid_response(d.out.v, message, 200, OkStatus)) ELSE d.out,
            d.rows, d.seq, m, record_id, d.out, NoExc)

\* The method stopped at invalid_response(message=error)
BadBody ==
    Handled(Raise(NotSerializable), records, recSeq, "none", PyNone, Ok(PyNone), NoExc)

\* request.env[model_name] on a model the registry does not have
NoSuchModel ==
    Handled(Raise(Exc("KeyError", "model")), records, recSeq, "none", PyNone, Ok(PyNone), NoExc)

\* list_of_fields of a payload, <<>> when absent
ListOfFields(data) == Get(data, "list_of_fields", <<>>)
Without(data, k) == [x \in DOMAIN data \ {k} |-> data[x]]

_create_new_records(model_name, body, err) ==
    IF get_json_body(body).error # PyNone THEN BadBody
    ELSE IF model_name \notin Models THEN NoSuchModel
    ELSE Called("_create_new_record", PyNone,
                _create_new_record(Without(get_json_body(body).data, "list_of_fields"),
                                   ListOfFields(get_json_body(body).data), err),
                "New record created successfully")

_update_existing_records(model_name, body, err) ==
    IF get_json_body(body).error # PyNone THEN BadBody
    ELSE IF model_name \notin Models THEN NoSuchModel
    ELSE Called("_update_existing_record", Get(get_json_body(body).data, "id", PyNone),
                _update_existing_record(Without(get_json_body(body).data, "list_of_fields"),
                                        ListOfFields(get_json_body(body).data), err),
                "Existing record updated successfully")

_delete_existing_records(model_name, record_id, err) ==
    IF record_id = 0
    THEN Early(invalid_response(DefaultBody, "Record id is required", 400, DefaultStatus))
    ELSE IF model_name \notin Models THEN NoSuchModel
    ELSE Called("_api_delete_one", PyInt(record_id), _api_delete_one(record_id, err),
                "Record deleted successfully")

_get_all_records(model_name, body) ==
    IF get_json_body(body).error # PyNone THEN BadBody
    ELSE IF model_name \notin Models THEN NoSuchModel
    ELSE Called("_api_search_all", PyNone,
                _api_search_all(Get(get_json_body(body).data, "domain", <<>>), Get(get_json_body(body).data, "limit", 100),
                                Get(get_json_body(body).data, "offset", 0), ListOfFields(get_json_body(body).data)),
                "All records retrieved successfully")

_get_one_record(model_name, record_id, body) ==
    IF get_json_body(body).error # PyNone THEN BadBody
    ELSE IF record_id = 0
    THEN Early(invalid_response(DefaultBody, "Record id is required", 400, DefaultStatus))
    ELSE IF model_name \notin Models THEN NoSuchModel
    ELSE Called("_api_search_one", PyInt(record_id),
                _api_search_one(record_id, ListOfFields(get_json_body(body).data)),
                "Record found successfully")

\* query: the ?query= parameter, <<>> when absent
_get_records_filters(model_name, body, query) ==
    IF get_json_body(body).error # PyNone THEN BadBody
    ELSE IF model_name \notin Models THEN NoSuchModel
    ELSE Called("_api_filter_with_keywords", PyNone,
                _api_filter_with_keywords(Get(get_json_body(body).data, "domain", <<>>), query,
                                          ListOfFields(get_json_body(body).data)),
                "Record filtered successfully")

\* A recordset of the kind, and the marker of a method that returns its record
PyRecordset(ids) == [t |-> "recordset", v |-> ids]
Self == [t |-> "self"]

\* json.dumps accepts the value (a recordset is not JSON serializable)
JsonSerializable(x) == x.t # "recordset"

\* getattr(record, action_name) on a row of the kind: no such attribute, a field
\* value (not callable), or a method.  A method called with no arguments has an
\* effect on the row, and returns a value or raises.
Attributes ==
    [ no_such_method  |-> [kind |-> "absent"],
      name            |-> [kind |-> "value"],
      flush_recordset |-> [kind |-> "method", effect |-> "none", returns |-> PyNone,
                           raises |-> NoExc],
      unlink          |-> [kind |-> "method", effect |-> "unlink",
                           returns |-> [t |-> "bool", v |-> TRUE], raises |-> NoExc],
      write           |-> [kind |-> "method", effect |-> "none", returns |-> PyNone,
                           raises |-> Exc("TypeError", "missing argument")],
      check_access    |-> [kind |-> "method", effect |-> "none", returns |-> PyNone,
                           raises |-> Exc("AccessError", "not allowed")],
      exists          |-> [kind |-> "method", effect |-> "none", returns |-> Self,
                           raises |-> NoExc] ]

ActionNames == DOMAIN Attributes

\* The body of run_action_on_record before its except clauses
run_action_try(model_name, record_id, body) ==
    IF get_json_body(body).error # PyNone THEN BadBody
    ELSE LET action_name == Get(get_json_body(body).data, "action_name", "") IN
    IF action_name = ""
    THEN Early(invalid_response(PyStr("Missing action_name"), "Invalid Request", 400, DefaultStatus))
    ELSE IF model_name \notin Models
    THEN Early(invalid_response(PyStr("Invalid model"), "Invalid Request", 400, DefaultStatus))
    ELSE IF ~Exists(record_id)
    THEN Early(invalid_response(PyStr("Record not found"), "Invalid Request", 400, DefaultStatus))
    ELSE IF Attributes[action_name].kind = "absent"
    THEN Early(invalid_response(PyStr("Invalid action"), "Invalid Request", 400, DefaultStatus))
    ELSE IF Attributes[action_name].kind # "method"
    THEN Early(invalid_response(PyStr("Action is not callable"), "Invalid Request", 400,
                                DefaultStatus))
    ELSE LET method == Attributes[action_name]
             rows   == IF method.effect = "unlink"
                       THEN [i \in DOMAIN records \ {record_id} |-> records[i]]
                       ELSE records
             result == IF method.returns = Self THEN PyRecordset(<<record_id>>)
                       ELSE method.returns
             response == << <<"error", FALSE>>, <<"record_id", record_id>>,
                            <<"action", action_name>>,
                            <<"message", "Action executed successfully: " \o action_name>> >>
             full   == IF Truthy(result)
                       THEN Append(response, <<"action_result", result>>)
                       ELSE response
         IN  IF method.raises # NoExc
             THEN Handled(Raise(method.raises), records, recSeq, action_name,
                          PyInt(record_id), Raise(method.raises), NoExc)
             ELSE IF Truthy(result) /\ ~JsonSerializable(result)
             THEN \* json.dumps of valid_response raises, after the method has run
                  Handled(Raise(Exc("TypeError",
                                    "Object of type res.partner is not JSON serializable")),
                          rows, recSeq, action_name, PyInt(record_id), Ok(result), NoExc)
             ELSE Handled(Ok(valid_response(PyDict(full), "Action executed successfully",
                                            200, OkStatus)),
                          rows, recSeq, action_name, PyInt(record_id), Ok(result),
                          NoExc)

\* run_action_on_record: AccessError and every other exception are answered by
\* invalid_response(<text>), the text being its first positional argument
run_action_on_record(model_name, record_id, body) ==
    LET h == run_action_try(model_name, record_id, body)
    IN  IF h.out.ok THEN h
        ELSE [h EXCEPT
                !.out = Ok(invalid_response(
                            PyStr(IF isinstance(h.out.e, "AccessError") THEN "Access denied"
                                  ELSE "Unexpected server error"),
                            "Invalid Request", 400, DefaultStatus)),
                !.caught = h.out.e]

\* request.session.authenticate(db, login, password): the user logged in, or NoUser
\* when the host raises AccessDenied
authenticate(login, pw) ==
    LET ok == {u \in Users : Login(u) = login /\ password[u] = pw}
    IN  IF ok = {} THEN NoUser ELSE CHOOSE u \in ok : TRUE

AccessDenied == Exc("AccessDenied", "Access Denied")

\* Outcome of an authentication route: out as above; issued: the token row
\* _create_new_jwt_token inserted ({} if none); pw: the passwords it leaves
Authed(out, issued, pw, caught) ==
    [out |-> out, issued |-> issued, pw |-> pw, caught |-> caught]

\* _authentication(): login and token issue
_authentication(body) ==
    IF get_json_body(body).error # PyNone
    THEN Authed(Raise(NotSerializable), {}, password, NoExc)
    ELSE LET username == Get(get_json_body(body).data, "username", Login(NoUser))
             pw       == Get(get_json_body(body).data, "password", "")
             current_user == authenticate(username, pw)
         IN  IF current_user = NoUser
             THEN Authed(Ok(handel_odoo_api_errors(str(AccessDenied))), {}, password,
                         AccessDenied)
             ELSE LET row == _create_new_jwt_token(current_user)
                  IN  Authed(Ok(Response(
                                 [code |-> 200, message |-> "User Login Successfully",
                                  result |-> PyDict(<< <<"user_id", current_user>>,
                                                       <<"username", username>>,
                                                       <<"token", row.token>> >>)],
                                 OkStatus)),
                             {row}, password, NoExc)

\* _chanage_password(); current_user: request.env.user (NoUser: the empty res.users)
_chanage_password(body, current_user) ==
    IF get_json_body(body).error # PyNone
    THEN Authed(Raise(NotSerializable), {}, password, NoExc)
    ELSE LET old_password == Get(get_json_body(body).data, "old_password", "")
             new_password == Get(get_json_body(body).data, "new_password", "")
         IN  IF old_password = "" \/ new_password = ""
             THEN Authed(Ok(invalid_response(DefaultBody,
                              "Old password and new password are required", 400,
                              DefaultStatus)), {}, password, NoExc)
             ELSE IF old_password = new_password
             THEN Authed(Ok(invalid_response(DefaultBody,
                              "Old password and new password cannot be the same", 400,
                              DefaultStatus)), {}, password, NoExc)
             ELSE IF authenticate(Login(current_user), old_password) = NoUser
             THEN Authed(Ok(handel_odoo_api_errors(str(AccessDenied))), {}, password,
                         AccessDenied)
             ELSE Authed(Ok(valid_response(DefaultBody, "Password Changed Successfully",
                                           200, OkStatus)),
                         {}, [password EXCEPT ![current_user] = new_password], NoExc)

-----------------------------------------------------------------------------
(* Inputs of the routes *)

CountryValues == {1, 2}          \* an existing and a missing res.country id
FieldLists    == {<<"id", "name">>}
Passwords     == {"p", "q"}
Keywords      == {<<"b">>}
SearchDomains == {<<>>, <<"name", "=", <<"a">> >>}

\* An id in a JSON payload: an integer, or a string of digits
IdValues == {PyInt(0)} \cup {PyInt(n) : n \in 1..MaxRec + 1}
                       \cup {PyDigits(n) : n \in 1..MaxRec + 1}

\* <int:record_id> of a URL
UrlIds == 0..MaxRec + 1

BadBodies == {NoBody, BadJson}

CreateBodies ==
    BadBodies \cup
    {Json(Put("name", n) @@ Put("country_id", c) @@ Put("list_of_fields", l)) :
        n \in Opt(Names), c \in Opt(CountryValues), l \in Opt(FieldLists)}

UpdateBodies ==
    BadBodies \cup
    {Json(Put("id", i) @@ Put("name", n) @@ Put("country_id", c) @@ Put("list_of_fields", l)) :
        i \in Opt(IdValues), n \in Opt(Names), c \in Opt(CountryValues), l \in Opt(FieldLists)}

SearchBodies ==
    BadBodies \cup
    {Json(Put("domain", d) @@ Put("limit", n) @@ Put("offset", o) @@ Put("list_of_fields", l)) :
        d \in Opt(SearchDomains), n \in Opt({1}), o \in Opt({1}), l \in Opt(FieldLists)}

FieldsBodies == BadBodies \cup {Json(Put("list_of_fields", l)) : l \in Opt(FieldLists)}

FilterBodies ==
    BadBodies \cup
    {Json(Put("domain", d) @@ Put("list_of_fields", l)) :
        d \in Opt(SearchDomains), l \in Opt(FieldLists)}

ActionBodies == BadBodies \cup {Json(Put("action_name", a)) : a \in Opt(ActionNames)}

LoginBodies ==
    BadBodies \cup
    {Json(Put("username", u) @@ Put("password", p)) :
        u \in Opt({Login(x) : x \in Users}), p \in Opt(Passwords)}

PasswordBodies ==
    BadBodies \cup
    {Json(Put("old_password", o) @@ Put("new_password", n)) :
        o \in Opt(Passwords), n \in Opt(Passwords)}

-----------------------------------------------------------------------------
(* Serving a request *)

CrudRoutes == {"create", "update", "delete", "search_all", "search_one", "filter", "action"}
AuthRoutes == {"login", "chanage_password"}

Pending == [pending |-> TRUE]
Idle    == [verify |-> [called |-> FALSE, user |-> NoUser], env_user |-> NoUser,
            store |-> "none", record_id |-> PyNone, ret |-> Ok(PyNone), caught |-> NoExc,
            raised |-> NoExc]

\* The request is routed to its controller method; requests are served one at a time.
Receive(route, header) ==
    /\ resp # Pending
    /\ req' = [route |-> route, header |-> header]
    /\ resp' = Pending
    /\ run' = Idle
    /\ UNCHANGED <<tokenVars, dev_mode, password, storeVars>>

\* The routed request runs controller method body h (a Handled record), behind the
\* token check when the route carries it; an exception that leaves the method is
\* mapped by the token check's except clause, and leaves the controller otherwise.
ServeArgs(route, h, args) ==
    LET checked == route \in TokenCheckedRoutes
        gate    == check_api_token(req.header)
        ran     == ~checked \/ gate.pass
    IN  /\ req.route = route
        /\ resp = Pending
        /\ h.seq <= MaxRec + 1
        /\ resp' = IF ~ran THEN gate.resp
                   ELSE IF h.out.ok THEN h.out.v
                   ELSE IF checked THEN handel_odoo_api_errors(h.out.e)
                   ELSE Unhandled(h.out.e)
        /\ run' = [verify    |-> [called |-> checked /\ gate.called,
                                  user   |-> IF checked THEN gate.user ELSE NoUser],
                   env_user  |-> IF checked /\ gate.pass THEN gate.user ELSE NoUser,
                   store     |-> IF ran THEN h.store ELSE "none",
                   record_id |-> IF ran THEN h.record_id ELSE PyNone,
                   ret       |-> IF ran THEN h.ret ELSE Ok(PyNone),
                   caught    |-> IF ran THEN h.caught ELSE NoExc,
                   raised    |-> IF ran /\ ~h.out.ok THEN h.out.e ELSE NoExc]
        /\ records' = IF ran /\ h.out.ok THEN h.rows ELSE records
        /\ recSeq'  = IF ran /\ h.out.ok THEN h.seq ELSE recSeq
        /\ req' = IF args = <<>> THEN req
                  ELSE [route |-> req.route, header |-> req.header, args |-> args]
        /\ UNCHANGED <<tokenVars, dev_mode, password>>

Serve(route, h) == ServeArgs(route, h, <<>>)

StoreOutcomes == StoreErrors \cup {NoExc}

Create ==
    \E body \in CreateBodies, err \in StoreOutcomes, m \in Models :
        Serve("create", _create_new_records(m, body, err))

Update ==
    \E body \in UpdateBodies, err \in StoreOutcomes, m \in Models :
        Serve("update", _update_existing_records(m, body, err))

Delete ==
    \E record_id \in UrlIds, err \in StoreOutcomes, m \in Models :
        Serve("delete", _delete_existing_records(m, record_id, err))

SearchAll ==
    \E body \in SearchBodies, m \in Models :
        Serve("search_all", _get_all_records(m, body))

SearchOne ==
    \E body \in FieldsBodies, record_id \in UrlIds, m \in Models :
        Serve("search_one", _get_one_record(m, record_id, body))

Filter ==
    \E body \in FilterBodies, query \in Keywords \cup {<<>>}, m \in Models :
        Serve("filter", _get_records_filters(m, body, query))

RunAction ==
    \E body \in ActionBodies, record_id \in UrlIds, m \in Models \cup {"no.such.model"} :
        ServeArgs("action", run_action_on_record(m, record_id, body),
                  [model_name |-> m, record_id |-> record_id, body |-> body])

\* An authentication route answers; a.issued is inserted into the token table
ServeAuth(route, a) ==
    /\ req.route = route
    /\ resp = Pending
    /\ a.issued # {} => tokenSeq <= MaxTokens
    /\ resp' = IF a.out.ok THEN a.out.v ELSE Unhandled(a.out.e)
    /\ run' = [Idle EXCEPT !.caught = a.caught,
                           !.raised = IF a.out.ok THEN NoExc ELSE a.out.e]
    /\ tokens' = tokens \cup a.issued
    /\ tokenSeq' = IF a.issued # {} THEN tokenSeq + 1 ELSE tokenSeq
    /\ call' = IF a.issued # {}
               THEN [op |-> "issue", arg |-> (CHOOSE r \in a.issued : TRUE).user_id,
                     result |-> (CHOOSE r \in a.issued : TRUE).token]
               ELSE NoCall
    /\ password' = a.pw
    /\ UNCHANGED <<req, now, dev_mode, storeVars>>

Authentication == \E body \in LoginBodies : ServeAuth("login", _authentication(body))

ChangePassword ==
    \E body \in PasswordBodies, current_user \in Users \cup {NoUser} :
        ServeAuth("chanage_password", _chanage_password(body, current_user))

\* handel_odoo_api_errors applied to an error value
MapError(e) ==
    /\ resp # Pending
    /\ req' = [route |-> "none", header |-> NoHeader]
    /\ run' = [Idle EXCEPT !.caught = e]
    /\ resp' = handel_odoo_api_errors(e)
    /\ UNCHANGED <<tokenVars, dev_mode, password, storeVars>>

\* Sequences over S of length at most n
SeqsUpTo(S, n) == UNION {[1..k -> S] : k \in 0..n}

MaxItems == 2       \* items in a to-many list of a payload

\* Items of a to-many list: bare ids, objects with only an id, other objects, and a
\* JSON string
PlainItems ==
    { PyInt(1), PyInt(2),
      PyDict(<< <<"id", PyInt(1)>> >>),
      PyDict(<< <<"name", PyStr(<<"a">>)>> >>),
      PyDict(<< <<"id", PyInt(1)>>, <<"name", PyStr(<<"a">>)>> >>),
      PyStr(<<"a">>) }

\* Attachment payloads (base64 text) and the shapes they arrive in
Payloads == {PyStr(<<"x">>), PyStr(<<"y">>)}
FlatAtt(p) == PyDict(<< <<"name", PyStr(<<"n">>)>>, <<"attachment", p>> >>)
Group(atts) == PyDict(<< <<"attachment_ids", PyList(atts)>> >>)

AttachmentItems ==
    { PyDict(<< <<"attachment", PyStr(<<"x">>)>> >>),
      PyDict(<< <<"name", PyStr(<<"n">>)>>, <<"attachment", PyStr(<<"x">>)>> >>),
      PyDict(<< <<"id", PyInt(1)>>, <<"attachment_ids", PyList(<<FlatAtt(PyStr(<<"x">>))>>)>> >>),
      PyDict(<< <<"name", PyStr(<<"a">>)>>,
                <<"doc_attachment_ids", PyList(<<FlatAtt(PyStr(<<"x">>))>>)>> >>),
      Group(<<>>),
      Group(<<Group(<<FlatAtt(PyStr(<<"x">>))>>)>>) }
    \cup {Group(atts) : atts \in SeqsUpTo({FlatAtt(p) : p \in Payloads}, 2) \ {<<>>}}

\* Payloads of translate: name and country_id, and at most one to-many key
TranslateInputs ==
    {Put("name", n) @@ Put("country_id", c) @@ rel :
        n \in Opt({<<"a">>}), c \in Opt(CountryValues \cup {0}),
        rel \in {<<>>, "category_id" :> PyInt(1)}
            \cup {"category_id" :> PyList(l) : l \in SeqsUpTo(PlainItems, MaxItems)}
            \cup {k :> PyList(l) : k \in {"attachment_ids", "child_ids"},
                                   l \in SeqsUpTo(AttachmentItems \cup {PyInt(1)}, MaxItems)}}

\* _from_dict(data) is called on a payload object; resp is what it returned and
\* the object as the call left it
Translate(data) ==
    LET r == from_dict_loop(data, 1, <<>>)
    IN  /\ req.route = "none"
        /\ req' = [route |-> "translate", header |-> NoHeader, data |-> data, nth |-> 1,
                   first |-> r.out]
        /\ run' = Idle
        /\ resp' = r
        /\ UNCHANGED <<tokenVars, dev_mode, password, storeVars>>

\* _from_dict is called a second time on the same payload object
TranslateAgain ==
    LET r == from_dict_loop(resp.data, 1, <<>>)
    IN  /\ req.route = "translate" /\ req.nth = 1
        /\ req' = [req EXCEPT !.data = resp.data, !.nth = 2]
        /\ run' = Idle
        /\ resp' = r
        /\ UNCHANGED <<tokenVars, dev_mode, password, storeVars>>

MaxHandle == 2      \* records in a handle that is projected

\* Rows of the projected table.  RowA refers to row 2 as its parent and to rows 1
\* and 2 as its children, RowB to row 1: a table holds the cycles 1 -> 1 and
\* 1 -> 2 -> 1 depending on where the rows sit.
RowA ==
    [name |-> <<"a">>, email |-> <<"e">>, comment |-> <<"<", "b", ">", "h">>,
     active |-> TRUE, country_id |-> 1, parent_id |-> 2, create_date |-> 3,
     message_has_error_counter |-> 1, message_ids |-> <<7>>, child_ids |-> <<1, 2>>,
     attachment_ids |-> <<5>>, category_id |-> <<4, 4>>]
RowB ==
    [UnsetRow EXCEPT !.name = <<"a", "b", " ">>, !.parent_id = 1, !.child_ids = <<1>>]

ProjectIds    == {1, 2}
ProjectTables == [ProjectIds -> {UnsetRow, RowA, RowB}]

\* list_of_fields of a projection; <<>> stands for None
ProjectFilters ==
    { <<>>,
      <<"email">>,
      <<"email", "display_name">>,
      <<"display_name", "email">>,
      <<"id", "name", "comment">>,
      <<"message_has_error_counter", "message_ids">>,
      <<"child_ids", "attachment_ids", "parent_id">>,
      <<"nosuch", "create_date", "active">> }

\* self._to_dict(list_of_fields) is called on the handle ids of table rows, with
\* no memo: a fresh memo is made and the records of the handle are pending
Project(rows, ids, list_of_fields) ==
    /\ req.route = "none"
    /\ req' = [route |-> "project", header |-> NoHeader, rows |-> rows, ids |-> ids,
               fields |-> list_of_fields, pending |-> ids, memo |-> {}]
    /\ run' = Idle
    /\ resp' = [out |-> <<>>, v |-> IF ids = <<>> THEN to_dict_return(ids, <<>>) ELSE PyNone]
    /\ UNCHANGED <<tokenVars, dev_mode, password, storeVars>>

\* The next record of the handle is projected with the call's memo
ProjectStep ==
    /\ req.route = "project" /\ req.pending # <<>>
    /\ LET r   == to_dict_memo(req.rows, Head(req.pending), req.fields, req.memo)
           out == Append(resp.out, r.v)
       IN  /\ req' = [req EXCEPT !.pending = Tail(@), !.memo = r.memo]
           /\ resp' = [out |-> out,
                       v   |-> IF Tail(req.pending) = <<>> THEN to_dict_return(req.ids, out)
                               ELSE PyNone]
    /\ run' = Idle
    /\ UNCHANGED <<tokenVars, dev_mode, password, storeVars>>

\* What ProjectStep does to the call's position: the steps of ProjectSpec that
\* satisfy it are the ProjectStep steps, and it is enabled exactly when ProjectStep is
ProjectAdvance ==
    /\ req.route = "project" /\ req.pending # <<>>
    /\ req' = [req EXCEPT !.pending = Tail(@),
                          !.memo = @ \cup {record_ref(Head(req.pending))}]

\* What a function behind @check_api_token() does when it is called: it returns a
\* Response or raises
WrappedFuncs ==
    { Ok(valid_response(DefaultBody, "Successful", 200, OkStatus)),
      Raise(Exc("ValidationError", "constraint failed")),
      Raise(Exc("KeyError", "model")) }

\* check_api_token()(func) serves a request: wrapper(*args, **kwargs).  env_user is
\* the user of request.env when func is called (request.update_env).
Wrapper(header, func) ==
    LET gate == check_api_token(header)
    IN  /\ resp # Pending
        /\ req' = [route |-> "wrapped", header |-> header]
        /\ resp' = IF ~gate.pass THEN gate.resp
                   ELSE IF func.ok THEN func.v
                   ELSE handel_odoo_api_errors(func.e)
        /\ run' = [Idle EXCEPT !.verify   = [called |-> gate.called, user |-> gate.user],
                               !.env_user = IF gate.pass THEN gate.user ELSE NoUser,
                               !.store    = IF gate.pass THEN "func" ELSE "none",
                               !.caught   = IF gate.pass /\ ~func.ok THEN func.e ELSE NoExc]
        /\ UNCHANGED <<tokenVars, dev_mode, password, storeVars>>

-----------------------------------------------------------------------------
(* Initial state and steps *)

Init ==
    /\ TokenInit
    /\ dev_mode \in BOOLEAN
    /\ password = [u \in Users |-> "p"]
    /\ records = <<>>
    /\ recSeq = 1
    /\ req = [route |-> "none", header |-> NoHeader]
    /\ run = Idle
    /\ resp = [status |-> 0, json |-> [code |-> 0, message |-> "", body |-> DefaultBody]]

CrudNext ==
    \/ \E r \in CrudRoutes, h \in Headers : Receive(r, h)
    \/ Create
    \/ Update
    \/ Delete
    \/ SearchAll
    \/ SearchOne
    \/ Filter
    \/ RunAction

AuthNext ==
    \/ \E r \in AuthRoutes, h \in Headers : Receive(r, h)
    \/ Authentication
    \/ ChangePassword

MapperNext == \E e \in ErrorValues : MapError(e)

WrapperNext ==
    \/ \E u \in Users : Issue(u)
    \/ Tick
    \/ \E h \in Headers, f \in WrappedFuncs : Wrapper(h, f)

TranslateNext ==
    \/ \E d \in TranslateInputs : Translate(d)
    \/ TranslateAgain

ProjectNext ==
    \/ \E rows \in ProjectTables, ids \in SeqsUpTo(ProjectIds, MaxHandle),
          f \in ProjectFilters : Project(rows, ids, f)
    \/ ProjectStep

Next ==
    \/ TokenNext \/ CrudNext \/ AuthNext \/ MapperNext \/ WrapperNext \/ TranslateNext
    \/ ProjectNext

-----------------------------------------------------------------------------
(* Claims about the token manager, checked under TokenSpec *)

\* C1: verify(credential) returns a principal only for a stored token row that is
\* not expired (now <= expires); for a row whose expiry is in the past it returns
\* the negative result, even while the row is still in storage.
C1_VerifyRejectsExpired ==
    (call.op = "verify" /\ call.result # NoUser) =>
        \E t \in tokens : /\ t.token = call.arg
                          /\ t.user_id = call.result
                          /\ ~(now > t.expires)

\* C2: when the periodic autovacuum run of _delete_expired_token has completed,
\* storage holds no token row whose is_expired flag is true.
C2_AutovacuumRemovesExpired ==
    call.op = "autovacuum" => \A t \in tokens : ~_compute_expires(t)

\* C4: issue(principal) at time t adds exactly one row, owned by the principal, with
\* expires = t + 10 days, and returns that row's credential; rows are only ever added
\* by issue(); and verify(credential) at a time t' <= expires, with the row still
\* stored, returns exactly the row's owner.
C4_IssueThenVerify ==
    [][ /\ (tokens' \ tokens # {}) => call'.op = "issue"
        /\ call'.op = "issue" =>
              /\ tokens \subseteq tokens'
              /\ Cardinality(tokens' \ tokens) = 1
              /\ \A r \in tokens' \ tokens :
                    /\ r.user_id = call'.arg
                    /\ r.expires = now + ValidityDays
                    /\ r.token = call'.result
        /\ call'.op = "verify" =>
              \A t \in tokens' :
                  (t.token = call'.arg /\ now' <= t.expires) => call'.result = t.user_id
      ]_vars

\* C4 witness: verify accepted a credential exactly at its expiry time, for the
\* right owner, while another principal's token is stored too.
C4_Witness ==
    /\ call.op = "verify"
    /\ \E t, o \in tokens : /\ t.token = call.arg
                            /\ now = t.expires
                            /\ call.result = t.user_id
                            /\ o.user_id # t.user_id

-----------------------------------------------------------------------------
(* Claims about the HTTP routes, checked under CrudSpec and AuthSpec *)

\* C3: on every CRUD route (create, update, delete, search-all, search-one, filter,
\* run-named-action) the store operation is invoked only after verify succeeded on
\* the request's bearer credential; a request with no credential, or with one that
\* verify does not accept, never reaches the CRUD orchestrator.
C3_CrudGatedByToken ==
    (req.route \in CrudRoutes /\ resp # Pending) =>
        /\ run.store # "none" => (run.verify.called /\ run.verify.user \in Users)
        /\ (req.header.scheme # "Bearer " \/ _token_verify(req.header.cred) = NoUser)
              => run.store = "none"

C7_DeleteMissingIs404 ==
    [][ ( /\ req.route = "delete" /\ resp = Pending
          /\ run'.store = "_api_delete_one"
          /\ run'.record_id.v \notin DOMAIN records )
        => ( /\ "json" \in DOMAIN resp'
             /\ resp'.json.code = 404
             /\ records' = records )
      ]_vars

\* The error-code table of the interface: the code of the most specific listed class
CodeTable ==
    [ IntegrityError |-> 400, ValidationError |-> 402, AccessDenied |-> 401,
      AccessError |-> 403, MissingError |-> 404, UserError |-> 400 ]

RECURSIVE ExpectedCode(_)
ExpectedCode(cls) ==
    IF cls \in DOMAIN CodeTable THEN CodeTable[cls]
    ELSE IF cls \in Classes THEN ExpectedCode(BaseOf[cls])
    ELSE 500

\* C8: every exception raised on a write path (create, update, delete) is answered
\* by a Failure envelope whose code is the one the error-code table gives; none
\* leaves the controller unmapped and none is answered by a Success envelope.
C8_WriteFailuresMapped ==
    (req.route \in {"create", "update", "delete"} /\ resp # Pending /\ run.raised # NoExc) =>
        /\ "json" \in DOMAIN resp
        /\ resp.json.code = ExpectedCode(run.raised.cls)
        /\ resp.json.code >= 400

\* C9: when the host denies authenticate() in login or change-password, the answer
\* is a Failure envelope with code 401 and the fixed message, and no token is issued.
C9_AuthDeniedIs401 ==
    (req.route \in AuthRoutes /\ resp # Pending /\ isinstance(run.caught, "AccessDenied")) =>
        /\ "json" \in DOMAIN resp
        /\ resp.json.code = 401
        /\ resp.json.message = "Access Denied"
        /\ call.op # "issue"

\* C10: the mapper gives every error the code of the table for its most specific
\* listed class (500 for an unlisted one); a validation, access or missing error
\* never gets the generic user-error code 400.
C10_MapperFollowsTable ==
    (req.route = "none" /\ run.caught # NoExc) =>
        /\ resp.json.code = ExpectedCode(run.caught.cls)
        /\ (\E c \in {"ValidationError", "AccessError", "MissingError"} :
                isinstance(run.caught, c)) => resp.json.code # 400

\* C10 witness: a validation error, which is also a user error, was mapped to 402.
C10_Witness ==
    /\ req.route = "none"
    /\ isinstance(run.caught, "ValidationError") /\ isinstance(run.caught, "UserError")
    /\ resp.json.code = 402

\* C11: behind the token check, a request whose Authorization header is absent or
\* does not start with 'Bearer ' is answered by a 4xx envelope other than 401, with
\* no call of verify and no call of the wrapped function; the wrapped function is
\* called only after verify returned a principal for the header's credential, and
\* it runs with that principal as the environment's user.
C11_WrapperGates ==
    req.route = "wrapped" =>
        /\ req.header.scheme # "Bearer " =>
              /\ resp.json.code \in 400..499 /\ resp.json.code # 401
              /\ resp.status \in 400..499 /\ resp.status # 401
              /\ ~run.verify.called
              /\ run.store = "none"
        /\ run.store # "none" =>
              /\ run.verify.called
              /\ run.verify.user \in Users
              /\ run.verify.user = _token_verify(req.header.cred)
              /\ run.env_user = run.verify.user

\* C11 witness: the wrapped function ran as the owner of a stored token, and raised
\* an error that the wrapper mapped.
C11_Witness ==
    /\ req.route = "wrapped" /\ run.store = "func"
    /\ \E t \in tokens : t.token = req.header.cred /\ t.user_id = run.env_user
    /\ run.caught # NoExc

\* C12: every response of every exposed operation (login, change-password, create,
\* update, delete, search-all, search-one, filter, run-named-action) is an envelope
\* with exactly the keys code, message and body; a success carries a 2xx code and a
\* failure a 4xx/5xx code.  (Stated for the responses the controller methods build;
\* an exception that leaves a method is answered by the host.)
C12_EveryResponseIsEnvelope ==
    (req.route \in CrudRoutes \cup AuthRoutes /\ resp # Pending /\ "json" \in DOMAIN resp) =>
        /\ DOMAIN resp.json = {"code", "message", "body"}
        /\ resp.json.code \in 200..299 \cup 400..599

\* C20: an error of no listed class is answered with code 500; the stack trace is
\* in the body only when dev_mode is on; and with dev_mode off the response does not
\* depend on the raw error text: two such errors that differ only in their text get
\* the same response.
C20_InternalErrorHidesText ==
    (req.route = "none" /\ run.caught # NoExc /\ ExpectedCode(run.caught.cls) = 500) =>
        /\ resp.json.code = 500
        /\ DictHas(resp.json.body.v, "traceback") <=> dev_mode
        /\ ~dev_mode =>
              \A e \in ErrorValues :
                  (e.cls = run.caught.cls /\ e.diag = run.caught.diag)
                      => handel_odoo_api_errors(e) = resp

\* C21: run-named-action invokes an operation only after every check passed (an
\* action name was supplied, the kind exists, the record exists, the record has an
\* attribute of that name, it is callable), and then that operation alone; when a
\* check fails nothing is invoked, the store is unchanged and the answer is a
\* failure; when the invoked operation returns, the answer is a success whose body
\* has the return value exactly when the value is non-empty.
C21_RunActionChecksThenInvokes ==
    [][ (req.route = "action" /\ resp = Pending /\ resp' # Pending) =>
          LET a       == req'.args
              data    == get_json_body(a.body).data
              named   == get_json_body(a.body).error = PyNone /\ "action_name" \in DOMAIN data
              passed  == /\ named
                         /\ a.model_name \in Models
                         /\ a.record_id \in DOMAIN records
                         /\ Attributes[data["action_name"]].kind = "method"
              invoked == run'.store # "none"
          IN  /\ invoked => (passed /\ run'.store = data["action_name"])
              /\ ~passed => /\ ~invoked
                            /\ records' = records
                            /\ resp'.json.code >= 400
              /\ (invoked /\ run'.ret.ok) =>
                    /\ "json" \in DOMAIN resp'
                    /\ resp'.json.code = 200
                    /\ DictHas(resp'.json.body.v, "action_result") <=> Truthy(run'.ret.v)
                    /\ Truthy(run'.ret.v) =>
                          DictVal(resp'.json.body.v, "action_result") = run'.ret.v
      ]_vars

-----------------------------------------------------------------------------
(* Claims about translate (_from_dict), checked under TranslateSpec *)

\* C13: for a many2many field given a list of bare ids and objects, translate
\* produces one command per list item, in input order: (4, id) for a bare id and
\* for an object whose only key is id, (0, 0, object) for any other object; links
\* are not de-duplicated.
C13_OneCommandPerItem ==
    ( /\ req.route = "translate"
      /\ resp.out.ok
      /\ "category_id" \in DOMAIN req.data
      /\ IsA(req.data["category_id"], {"list"})
      /\ \A i \in 1..Len(req.data["category_id"].v) :
            IsA(req.data["category_id"].v[i], {"int", "dict"}) )
    => LET items == req.data["category_id"].v
           cmds  == DictGetOr(resp.out.v, "category_id", <<>>)
       IN  /\ Len(cmds) = Len(items)
           /\ \A i \in 1..Len(items) :
                 cmds[i] = IF items[i].t = "int" THEN [cmd |-> 4, id |-> items[i]]
                           ELSE IF DictKeys(items[i].v) = {"id"}
                           THEN [cmd |-> 4, id |-> DictVal(items[i].v, "id")]
                           ELSE [cmd |-> 0, vals |-> items[i]]

\* C13 witness: the same id given twice, once bare and once as an object, gave two
\* equal link commands.
C13_Witness ==
    /\ req.route = "translate" /\ resp.out.ok
    /\ "category_id" \in DOMAIN req.data
    /\ req.data["category_id"] = PyList(<<PyInt(1), PyDict(<< <<"id", PyInt(1)>> >>)>>)
    /\ DictGetOr(resp.out.v, "category_id", <<>>) = <<Link(PyInt(1)), Link(PyInt(1))>>

\* C14: in the many2many path of an attachment field, for a list item whose
\* attachment keys flatten to k >= 1 payloads (flat objects, nested groups or one raw
\* string), translate succeeds, each file command is an element of the field's
\* command list itself, and the item's own link / create command is there too; the
\* flat and the nested shape of one payload give the same file command.
C14_AttachmentsFlattened ==
    ( /\ req.route = "translate"
      /\ "attachment_ids" \in DOMAIN req.data
      /\ IsA(req.data["attachment_ids"], {"list"})
      /\ ("country_id" \in DOMAIN req.data => ComodelExists(req.data["country_id"])) )
    => LET items == req.data["attachment_ids"].v
           cmds  == IF resp.out.ok THEN DictGetOr(resp.out.v, "attachment_ids", <<>>) ELSE <<>>
           flat(item) == m2m_flatten([i \in 1..Len(item.v) |-> item.v[i][1]], item.v, <<>>)
       IN  /\ \A i \in 1..Len(items) :
                 (IsA(items[i], {"dict"}) /\ flat(items[i]).attach_commands # <<>>) =>
                     /\ resp.out.ok
                     /\ \A j \in 1..Len(flat(items[i]).attach_commands) :
                           \E n \in 1..Len(cmds) : cmds[n] = flat(items[i]).attach_commands[j]
                     /\ \E n \in 1..Len(cmds) :
                           cmds[n] \in {[cmd |-> 4, id |-> DictGetOr(flat(items[i]).item, "id", PyNone)],
                                        [cmd |-> 0, vals |-> PyDict(flat(items[i]).item)]}
           /\ \A p \in Payloads :
                 FlatCommands(<<FlatAtt(p)>>) = FlatCommands(<<Group(<<FlatAtt(p)>>)>>)

\* C15: a translate call writes nothing to the store and leaves its input object
\* as it was, nested list items included; translating the same object a second time
\* against the same store gives the result of the first time.
C15_TranslateHasNoEffect ==
    [][ req'.route = "translate" =>
          /\ records' = records /\ recSeq' = recSeq
          /\ resp'.data = req'.data
          /\ req'.nth = 2 => resp'.out = req'.first
      ]_vars

\* The to-many fields of the registry
ToManyFields == {n \in FieldNames : FieldOf(n).type \in {"one2many", "many2many"}}

\* C22: translate emits nothing that clears or unlinks a relation: a many2one key
\* with an empty value, and a to-many key whose value is not a list or is a list
\* with no id and no object, get no entry in the translated values, and every
\* element of a to-many entry is a link command (4, id) or a create command
\* (0, 0, vals).
C22_TranslateNeverClears ==
    (req.route = "translate" /\ resp.out.ok) =>
        LET vals == resp.out.v
        IN  /\ ("country_id" \in DOMAIN req.data /\ req.data["country_id"] = 0)
                    => ~DictHas(vals, "country_id")
            /\ \A n \in ToManyFields \cap DOMAIN req.data :
                  /\ ( \/ ~IsA(req.data[n], {"list"})
                       \/ \A i \in 1..Len(req.data[n].v) :
                             ~IsA(req.data[n].v[i], {"int", "dict"}) )
                        => ~DictHas(vals, n)
                  /\ DictHas(vals, n) =>
                        \A i \in 1..Len(DictVal(vals, n)) :
                            LET c == DictVal(vals, n)[i]
                            IN  "cmd" \in DOMAIN c /\ c.cmd \in {0, 4}

-----------------------------------------------------------------------------
(* Claims about the projection (_to_dict), checked under ProjectSpec *)

\* The record at position j of the projected handle occurs at no earlier position
FirstSeen(j) == \A i \in 1..(j - 1) : req.ids[i] # req.ids[j]

\* C16: a projection call that has started returns, also on a table whose
\* relations form a cycle; in one call a record whose (kind, id) pair is already in
\* the memo gets exactly the stub {id, name} and is not expanded again, a record not
\* yet in the memo is expanded and its pair is put in the memo.
C16_ProjectionTerminatesWithStubs ==
    /\ (req.route = "project") ~> (req.route = "project" /\ req.pending = <<>>)
    /\ [](req.route = "project" =>
            /\ req.memo = {record_ref(req.ids[j]) : j \in 1..Len(resp.out)}
            /\ \A j \in 1..Len(resp.out) :
                  resp.out[j] = IF FirstSeen(j)
                                THEN _to_dict(req.rows, req.ids[j], req.fields)
                                ELSE << <<"id", PyInt(req.ids[j])>>,
                                        <<"name", PyStr(req.rows[req.ids[j]].name)>> >>)

\* C16 witness: the plural handle (1, 1) was projected on a table where row 1 is its
\* own parent and child; the first entry is the expansion, with the row itself as
\* a stub in parent_id, and the second entry is the stub.
C16_Witness ==
    /\ req.route = "project" /\ req.pending = <<>>
    /\ req.ids = <<1, 1>> /\ req.fields = <<>>
    /\ req.rows[1].parent_id = 1 /\ req.rows[1].child_ids = <<1>>
    /\ DictVal(resp.out[1], "parent_id") = Stub(1, req.rows[1].name)
    /\ DictKeys(resp.out[2]) = {"id", "name"}
    /\ DictKeys(resp.out[1]) # {"id", "name"}
    /\ resp.v = PyList(<<PyDict(resp.out[1]), PyDict(resp.out[2])>>)

\* The noise fields the interface names: activity, message, tracking and audit
\* bookkeeping
NoiseExamples ==
    {"message_ids", "message_has_error", "message_has_error_counter", "activity_ids",
     "create_date", "write_uid"}

\* C17: with suppression on (the default), no noise field is a key of an expanded
\* projection, whether the field set is the registry's or the caller's filter names
\* the field.
C17_NoiseNeverProjected ==
    req.route = "project" =>
        \A j \in 1..Len(resp.out) : DictKeys(resp.out[j]) \cap NoiseExamples = {}

\* The value of column n of a row is unset
Unset(val, type) ==
    CASE type \in {"char", "text", "selection", "html"} -> val = <<>>
      [] type = "boolean" -> val = FALSE
      [] type \in {"one2many", "many2many"} -> val = <<>>
      [] OTHER -> val = 0

\* The empty form the interface gives for a type
EmptyForm(type) ==
    CASE type \in {"char", "text", "selection", "html"} -> PyStr(<<>>)
      [] type = "many2one" -> PyDict(<<>>)
      [] type \in {"one2many", "many2many"} -> PyList(<<>>)
      [] OTHER -> PyFalse

\* C18: in an expanded projection, every emitted field whose value is unset has
\* the empty form of its type ("" for char, text, selection and html, {} for a
\* many2one, [] for a to-many, False otherwise), and every emitted to-many field has
\* its <field>_count key, equal to the length of the emitted list.
C18_EmptyFormsByType ==
    req.route = "project" =>
        \A j \in 1..Len(resp.out) : FirstSeen(j) =>
            \A n \in (DictKeys(resp.out[j]) \cap FieldNames) \ {"id"} :
                LET type == FieldOf(n).type
                    d    == resp.out[j]
                IN  /\ Unset(ReadField(req.rows, req.ids[j], n), type)
                          => DictVal(d, n) = EmptyForm(type)
                    /\ type \in {"one2many", "many2many"} =>
                          /\ DictHas(d, n \o "_count")
                          /\ DictVal(d, n \o "_count") = PyInt(Len(DictVal(d, n).v))

\* The names of S in registry order, a to-many one followed by its count key
RECURSIVE InRegistryOrder(_, _)
InRegistryOrder(S, i) ==
    IF i > Len(Fields) THEN <<>>
    ELSE (IF Fields[i].name \in S
          THEN <<Fields[i].name>> \o
               (IF Fields[i].type \in {"one2many", "many2many"}
                THEN <<Fields[i].name \o "_count">> ELSE <<>>)
          ELSE <<>>) \o InRegistryOrder(S, i + 1)

RECURSIVE ByPriority(_, _)
ByPriority(S, k) ==
    IF k > Len(FIELD_ORDER) THEN <<>>
    ELSE InRegistryOrder({n \in S : FieldOf(n).type = FIELD_ORDER[k]}, 1)
         \o ByPriority(S, k + 1)

\* The key sequence the interface gives for the emitted fields S
ExpectedKeys(S) ==
    LET rest == S \ {"id", "name"}
        seq(n) == IF n \in S THEN <<n>> ELSE <<>>
    IN  seq("id") \o seq("name") \o ByPriority(rest, 1)
        \o InRegistryOrder({n \in rest : \A k \in 1..Len(FIELD_ORDER) :
                                              FieldOf(n).type # FIELD_ORDER[k]}, 1)

Keys(d) == [i \in 1..Len(d) |-> d[i][1]]

\* C19: the key sequence of an expanded projection is the one the registry gives
\* for its fields: id and name first when they are keys, then the fields by type
\* priority, a to-many one followed by its count key, then the leftovers in
\* registry order; a filter naming the same fields in another order gives the same
\* key sequence.
C19_KeyOrderFromRegistry ==
    req.route = "project" =>
        \A j \in 1..Len(resp.out) : FirstSeen(j) =>
            /\ Keys(resp.out[j]) = ExpectedKeys(DictKeys(resp.out[j]) \cap FieldNames)
            /\ \A f \in ProjectFilters :
                  {f[i] : i \in 1..Len(f)} = {req.fields[i] : i \in 1..Len(req.fields)}
                      => Keys(_to_dict(req.rows, req.ids[j], f)) = Keys(resp.out[j])

-----------------------------------------------------------------------------
(* Specifications *)

TokenSpec  == Init /\ [][TokenNext]_vars
CrudSpec   == Init /\ [][CrudNext]_vars
AuthSpec   == Init /\ [][AuthNext]_vars
MapperSpec == Init /\ [][MapperNext]_vars
WrapperSpec == Init /\ [][WrapperNext]_vars
TranslateSpec == Init /\ [][TranslateNext]_vars
ProjectSpec == Init /\ [][ProjectNext]_vars
\* A projection call that has started runs on to its return: the loop over the
\* handle is sequential code that nothing suspends
ProjectFairSpec == ProjectSpec /\ WF_req(ProjectAdvance)
Spec       == Init /\ [][Next]_vars
====
